---- MODULE Spec2Model ----
(***************************************************************************)
(* Flask + LaunchDarkly demo: the client lifecycle (initialize before      *)
(* fork, postfork in each worker, close at teardown / exit) and the        *)
(* request path (context construction, flag evaluation, response) of the   *)
(* two application modules, app.py and app_idiomatic.py, under the         *)
(* gunicorn configuration gunicorn.conf.py.                                *)
(*                                                                         *)
(* The LaunchDarkly SDK and the gunicorn arbiter are external; the SDK is  *)
(* modelled by the four-state handle of the specification (Engine*         *)
(* operators), gunicorn by Fork / PostFork / Exit.                         *)
(***************************************************************************)
EXTENDS Naturals, FiniteSets, TLC

VARIABLES
    module,         \* which application module is deployed
    launch,         \* how the process is started
    envKey,         \* os.getenv("LAUNCHDARKLY_SDK_KEY", "")
    pc,             \* position of the master process
    cfgName,        \* config name of the latest create_app call
    appKey,         \* app.config['LAUNCHDARKLY_SDK_KEY'] of the latest app
    routes,         \* routes are registered on the served app
    initCount,      \* number of ldclient.set_config + ldclient.get pairs run
    atexitHooks,    \* number of registered atexit close functions
    ld,             \* per process: state of the singleton client handle
    wstate,         \* per worker: position of the worker process
    postforkCalls,  \* per worker: runs of the post_fork hook
    postforkFailed, \* per worker: client.postfork() raised in the hook
    closeCalls,     \* per process: calls of close() on the current handle
    closeFailed,    \* the underlying close() of the latest close path raised
    closeErr,       \* the latest close path raised to its caller
    served,         \* per process: requests served
    last            \* the latest request and its response

vars == <<module, launch, envKey, pc, cfgName, appKey, routes, initCount,
          atexitHooks, ld, wstate, postforkCalls, postforkFailed, closeCalls,
          closeFailed, closeErr, served, last>>

-----------------------------------------------------------------------------
(* Bounds and program constants *)

MaxRequests == 2

workers == 2

Master == 0
Workers == 1..workers
Procs == 0..workers

EnvKeys == {"", "sdk-key"}
ConfigNames == {"development", "production", "testing", "default"}
FlagKeys == {"web-banner", "test-flag"}
NoUser == "<absent>"
UserArgs == {NoUser, "", "alice"}
Routes == {"/", "/api/flag", "/health", "/status"}
Launches == {"gunicorn_app", "gunicorn_factory", "script"}
EngineOutcomes == {"on", "off", "fail"}
NoClient == "NONE"
LdStates == {"INITIALIZING", "READY", "CLOSED"}

-----------------------------------------------------------------------------
(* The external SDK handle: NoClient (uninitialized) -> INITIALIZING ->     *)
(* READY -> CLOSED                                                         *)

\* client.variation(key, context, default): the default unless READY; when
\* READY the flag's value, or the default on an internal failure or a
\* malformed context.  Never raises.
EngineVariation(st, ctx, default, o) ==
    IF st # "READY" THEN default
    ELSE IF (~ctx.valid) \/ o = "fail" THEN default
    ELSE o = "on"

\* client.is_initialized()
EngineIsInitialized(st) == st = "READY"

\* client.close(): CLOSED is terminal; the call may raise (ShutdownError).
EngineClose(st, fails) == [state |-> "CLOSED", raised |-> fails]

\* client.postfork(): restarts the background channels; may raise.
EnginePostfork(st, fails) ==
    [state |-> IF fails \/ st = "CLOSED" THEN st ELSE "INITIALIZING",
     raised |-> fails]

\* Context.builder(key).build(): an empty key gives an invalid context.
ContextBuilder(key) == [key |-> key, valid |-> key # "", raised |-> FALSE]

\* request.args.get("user", default)
ArgsGet(arg, default) == IF arg = NoUser THEN default ELSE arg

-----------------------------------------------------------------------------
(* config.py *)

\* The LAUNCHDARKLY_SDK_KEY attribute of the class config[name] selects:
\* TestingConfig overrides it, the others inherit Config's os.getenv value.
ConfigKey(name, env) == IF name = "testing" THEN "test-sdk-key" ELSE env

\* Config.validate(): a staticmethod that reads Config.LAUNCHDARKLY_SDK_KEY,
\* the base class attribute, whichever class it is called on.
validate(name, env) == env # ""

-----------------------------------------------------------------------------
(* launchdarkly_helpers.py *)

\* init_launchdarkly: `if not sdk_key: raise RuntimeError`
init_launchdarkly_ok(sdk_key) == sdk_key # ""

\* evaluate_flag that forwards a fixed True instead of the caller's default
evaluate_flag_fixed_default(client, flag_key, ctx, default, o) ==
    IF client # NoClient THEN EngineVariation(client, ctx, TRUE, o)
    ELSE TRUE

\* evaluate_flag(flag_key, context, default)
evaluate_flag(client, flag_key, ctx, default, o) ==
    IF client # NoClient THEN EngineVariation(client, ctx, default, o)
    ELSE default

\* build_context_from_request that rejects an empty key with an exception
build_context_from_request_strict(arg, default_key) ==
    [key |-> ArgsGet(arg, default_key), valid |-> ArgsGet(arg, default_key) # "",
     raised |-> ArgsGet(arg, default_key) = ""]

\* build_context_from_request(request, default_key)
build_context_from_request(arg, default_key) ==
    ContextBuilder(ArgsGet(arg, default_key))

\* _close_launchdarkly(exception): the teardown_appcontext hook
_close_launchdarkly(client, fails) ==
    IF client # NoClient
    THEN [state |-> EngineClose(client, fails).state, calls |-> 1,
          failed |-> EngineClose(client, fails).raised, raised |-> FALSE]
    ELSE [state |-> client, calls |-> 0, failed |-> FALSE, raised |-> FALSE]

\* _shutdown_ld_client without its try / except
_shutdown_ld_client_unguarded(client, fails) ==
    [state |-> EngineClose(client, fails).state, calls |-> 1,
     failed |-> EngineClose(client, fails).raised,
     raised |-> EngineClose(client, fails).raised]

\* _shutdown_ld_client(): the atexit hook; ldclient.get() is the singleton
_shutdown_ld_client(client, fails) ==
    IF client # NoClient
    THEN [state |-> EngineClose(client, fails).state, calls |-> 1,
          failed |-> EngineClose(client, fails).raised, raised |-> FALSE]
    ELSE [state |-> client, calls |-> 0, failed |-> FALSE, raised |-> FALSE]

-----------------------------------------------------------------------------
(* app.py *)

\* app.py without the `if not SDK_KEY: raise` check
app_import_unchecked(env) == [ok |-> TRUE, key |-> env, client |-> TRUE, routes |-> TRUE]

\* Module import up to `app = Flask(__name__)`: the SDK_KEY check, then
\* set_config / get, then the atexit registration.
app_import(env) ==
    [ok |-> env # "", key |-> env, client |-> env # "", routes |-> env # ""]

\* _close_ld(): the atexit hook of app.py
_close_ld(client, fails) ==
    [state |-> EngineClose(client, fails).state, calls |-> 1,
     failed |-> EngineClose(client, fails).raised, raised |-> FALSE]

\* user_context_from_request()
user_context_from_request(arg) == ContextBuilder(ArgsGet(arg, "anon"))

-----------------------------------------------------------------------------
(* gunicorn.conf.py *)

\* post_fork without its try / except
post_fork_unguarded(client, fails) ==
    [state |-> EnginePostfork(client, fails).state,
     failed |-> EnginePostfork(client, fails).raised,
     raised |-> EnginePostfork(client, fails).raised]

\* post_fork(server, worker): client.postfork() inside try / except Exception
post_fork(client, fails) ==
    [state |-> EnginePostfork(client, fails).state,
     failed |-> EnginePostfork(client, fails).raised, raised |-> FALSE]

-----------------------------------------------------------------------------
(* app_idiomatic.py *)

\* create_app(config_name): from_object, validate, init_launchdarkly,
\* register_routes, in this order; the first failing step raises.
\* client: set_config / get ran; routes: register_routes ran.
create_app(name, env) ==
    IF ~validate(name, env)
    THEN [ok |-> FALSE, key |-> ConfigKey(name, env), client |-> FALSE, routes |-> FALSE]
    ELSE IF ~init_launchdarkly_ok(ConfigKey(name, env))
    THEN [ok |-> FALSE, key |-> ConfigKey(name, env), client |-> FALSE, routes |-> FALSE]
    ELSE [ok |-> TRUE, key |-> ConfigKey(name, env), client |-> TRUE, routes |-> TRUE]

\* home(): GET / of app_idiomatic
home(client, o) ==
    [status |-> 200, flag |-> "web-banner", user |-> "",
     ctxKey |-> ContextBuilder("web-visitor").key, default |-> FALSE, evaluated |-> TRUE,
     value |-> evaluate_flag(client, "web-banner", ContextBuilder("web-visitor"), FALSE, o)]

\* read_flag that builds the context with the helper's own default key
read_flag_helper_default(client, flag_key, arg, o) ==
    [status |-> 200, flag |-> flag_key, user |-> ArgsGet(arg, "anon"),
     ctxKey |-> build_context_from_request(arg, "anonymous").key,
     default |-> FALSE, evaluated |-> TRUE,
     value |-> evaluate_flag(client, flag_key,
                             build_context_from_request(arg, "anonymous"), FALSE, o)]

\* read_flag(flag_key): GET /api/flag/<flag_key> of app_idiomatic
read_flag(client, flag_key, arg, o) ==
    IF build_context_from_request(arg, "anon").raised
    THEN [status |-> 500, flag |-> "", user |-> "", ctxKey |-> "",
          default |-> FALSE, evaluated |-> FALSE, value |-> FALSE]
    ELSE [status |-> 200, flag |-> flag_key, user |-> ArgsGet(arg, "anon"),
          ctxKey |-> build_context_from_request(arg, "anon").key,
          default |-> FALSE, evaluated |-> TRUE,
          value |-> evaluate_flag(client, flag_key,
                                  build_context_from_request(arg, "anon"), FALSE, o)]

\* health(): GET /health of both modules
health == [status |-> 200, flag |-> "", user |-> "", ctxKey |-> "",
           default |-> FALSE, evaluated |-> FALSE, value |-> FALSE]

\* status(): GET /status of app_idiomatic; value is launchdarkly_initialized
status(client) ==
    [status |-> 200, flag |-> "", user |-> "", ctxKey |-> "",
     default |-> FALSE, evaluated |-> FALSE,
     value |-> IF client # NoClient THEN EngineIsInitialized(client) ELSE FALSE]

-----------------------------------------------------------------------------
(* app.py, its routes *)

\* home(): GET / of app.py, ld.variation called directly
app_home(client, o) ==
    [status |-> 200, flag |-> "web-banner", user |-> "",
     ctxKey |-> ContextBuilder("web-visitor").key, default |-> FALSE, evaluated |-> TRUE,
     value |-> EngineVariation(client, ContextBuilder("web-visitor"), FALSE, o)]

\* read_flag(flag_key): GET /api/flag/<flag_key> of app.py
app_read_flag(client, flag_key, arg, o) ==
    [status |-> 200, flag |-> flag_key, user |-> ArgsGet(arg, "anon"),
     ctxKey |-> user_context_from_request(arg).key,
     default |-> FALSE, evaluated |-> TRUE,
     value |-> EngineVariation(client, user_context_from_request(arg), FALSE, o)]

\* A path no route matches (app.py has no /status)
not_found == [status |-> 404, flag |-> "", user |-> "", ctxKey |-> "",
              default |-> FALSE, evaluated |-> FALSE, value |-> FALSE]

\* The framework's dispatch of a request to the module's view function
Dispatch(mod, route, client, flag_key, arg, o) ==
    IF mod = "app_idiomatic"
    THEN CASE route = "/" -> home(client, o)
           [] route = "/api/flag" -> read_flag(client, flag_key, arg, o)
           [] route = "/health" -> health
           [] route = "/status" -> status(client)
    ELSE CASE route = "/" -> app_home(client, o)
           [] route = "/api/flag" -> app_read_flag(client, flag_key, arg, o)
           [] route = "/health" -> health
           [] route = "/status" -> not_found

-----------------------------------------------------------------------------
(* State machine *)

NoRequest ==
    [proc |-> Master, route |-> "none", arg |-> NoUser, reqFlag |-> "",
     outcome |-> "off", ldAt |-> NoClient, status |-> 0, flag |-> "",
     user |-> "", ctxKey |-> "", default |-> FALSE, evaluated |-> FALSE,
     value |-> FALSE]

InitCommon ==
    /\ envKey \in EnvKeys
    /\ cfgName = "none"
    /\ appKey = ""
    /\ routes = FALSE
    /\ initCount = 0
    /\ atexitHooks = 0
    /\ ld = [p \in Procs |-> NoClient]
    /\ wstate = [w \in Workers |-> "none"]
    /\ postforkCalls = [w \in Workers |-> 0]
    /\ postforkFailed = [w \in Workers |-> FALSE]
    /\ closeCalls = [p \in Procs |-> 0]
    /\ closeFailed = FALSE
    /\ closeErr = FALSE
    /\ served = [p \in Procs |-> 0]
    /\ last = NoRequest

\* A fresh process about to import app.py (gunicorn app:app) or
\* app_idiomatic.py (gunicorn app_idiomatic:app, gunicorn
\* "app_idiomatic:create_app()", or python app_idiomatic.py).
Init ==
    /\ module \in {"app", "app_idiomatic"}
    /\ launch \in Launches
    /\ module = "app" => launch = "gunicorn_app"
    /\ pc = "start"
    /\ InitCommon

\* The state change of one module start-up or create_app call with result r:
\* app.config loaded, then on success set_config / get (a new handle, which
\* replaces the singleton), the atexit registration and the routes.
Startup(r, okpc) ==
    /\ appKey' = r.key
    /\ pc' = IF r.ok THEN okpc ELSE "failed"
    /\ routes' = (routes \/ r.routes)
    /\ initCount' = initCount + (IF r.client THEN 1 ELSE 0)
    /\ atexitHooks' = atexitHooks + (IF r.client THEN 1 ELSE 0)
    /\ ld' = IF r.client THEN [ld EXCEPT ![Master] = "INITIALIZING"] ELSE ld
    /\ UNCHANGED <<module, launch, envKey, wstate, postforkCalls, postforkFailed,
                   closeCalls, closeFailed, closeErr, served, last>>

\* import app
ImportApp ==
    /\ module = "app"
    /\ pc = "start"
    /\ Startup(app_import(envKey), "ready")
    /\ UNCHANGED cfgName

\* import app_idiomatic: the module-level `app = create_app()`
ImportAppIdiomatic ==
    /\ module = "app_idiomatic"
    /\ pc = "start"
    /\ Startup(create_app("production", envKey), "imported")
    /\ cfgName' = "production"

\* gunicorn app_idiomatic:app serves the module-level app
UseModuleApp ==
    /\ pc = "imported"
    /\ launch = "gunicorn_app"
    /\ pc' = "ready"
    /\ UNCHANGED <<module, launch, envKey, cfgName, appKey, routes, initCount,
                   atexitHooks, ld, wstate, postforkCalls, postforkFailed,
                   closeCalls, closeFailed, closeErr, served, last>>

\* gunicorn "app_idiomatic:create_app()" calls the factory after the import
CallFactory ==
    /\ pc = "imported"
    /\ launch = "gunicorn_factory"
    /\ Startup(create_app("production", envKey), "ready")
    /\ cfgName' = "production"

\* python app_idiomatic.py: the __main__ block calls create_app('development')
RunMain ==
    /\ pc = "imported"
    /\ launch = "script"
    /\ Startup(create_app("development", envKey), "ready")
    /\ cfgName' = "development"

\* The engine's background initialization completes
BecomeReady(p) ==
    /\ ld[p] = "INITIALIZING"
    /\ IF p = Master THEN pc \in {"imported", "ready"} ELSE wstate[p] \in {"forked", "serving"}
    /\ ld' = [ld EXCEPT ![p] = "READY"]
    /\ UNCHANGED <<module, launch, envKey, pc, cfgName, appKey, routes, initCount,
                   atexitHooks, wstate, postforkCalls, postforkFailed,
                   closeCalls, closeFailed, closeErr, served, last>>

\* The arbiter forks worker w from the preloaded master (preload_app = True):
\* the child starts with a copy of the master's handle.
Fork(w) ==
    /\ pc = "ready"
    /\ launch \in {"gunicorn_app", "gunicorn_factory"}
    /\ wstate[w] = "none"
    /\ wstate' = [wstate EXCEPT ![w] = "forked"]
    /\ ld' = [ld EXCEPT ![w] = ld[Master]]
    /\ UNCHANGED <<module, launch, envKey, pc, cfgName, appKey, routes, initCount,
                   atexitHooks, postforkCalls, postforkFailed,
                   closeCalls, closeFailed, closeErr, served, last>>

\* The forked child runs the post_fork hook, then starts serving; an
\* exception escaping the hook ends the worker.
PostFork(w, fails) ==
    /\ wstate[w] = "forked"
    /\ wstate' = [wstate EXCEPT ![w] = IF post_fork(ld[w], fails).raised
                                        THEN "crashed" ELSE "serving"]
    /\ ld' = [ld EXCEPT ![w] = post_fork(ld[w], fails).state]
    /\ postforkCalls' = [postforkCalls EXCEPT ![w] = @ + 1]
    /\ postforkFailed' = [postforkFailed EXCEPT ![w] = post_fork(ld[w], fails).failed]
    /\ UNCHANGED <<module, launch, envKey, pc, cfgName, appKey, routes, initCount,
                   atexitHooks, closeCalls, closeFailed, closeErr, served, last>>

Serving(p) ==
    IF p = Master THEN pc = "ready" /\ launch = "script" ELSE wstate[p] = "serving"

RECURSIVE SumServed(_)
SumServed(p) == served[p] + (IF p = 0 THEN 0 ELSE SumServed(p - 1))

\* The app-context teardown after a request: app_idiomatic registered
\* close_ld_client with teardown_appcontext, app.py registered nothing.
Teardown(mod, client, fails) ==
    IF mod = "app_idiomatic" THEN _close_launchdarkly(client, fails)
    ELSE [state |-> client, calls |-> 0, failed |-> FALSE, raised |-> FALSE]

\* Process p serves one request: dispatch, view function, response, then the
\* teardown of the application context.
Request(p, route, arg, flag_key, o, fails) ==
    /\ Serving(p)
    /\ SumServed(workers) < MaxRequests
    /\ route # "/api/flag" => arg = NoUser /\ flag_key = "web-banner"
    /\ route \in {"/health", "/status"} => o = "off"
    /\ module = "app" => ~fails
    /\ last' = [proc |-> p, route |-> route, arg |-> arg, reqFlag |-> flag_key,
                outcome |-> o, ldAt |-> ld[p]]
               @@ Dispatch(module, route, ld[p], flag_key, arg, o)
    /\ served' = [served EXCEPT ![p] = @ + 1]
    /\ ld' = [ld EXCEPT ![p] = Teardown(module, ld[p], fails).state]
    /\ closeCalls' = [closeCalls EXCEPT ![p] = @ + Teardown(module, ld[p], fails).calls]
    /\ closeFailed' = IF Teardown(module, ld[p], fails).calls > 0
                      THEN Teardown(module, ld[p], fails).failed ELSE closeFailed
    /\ closeErr' = IF Teardown(module, ld[p], fails).calls > 0
                   THEN Teardown(module, ld[p], fails).raised ELSE closeErr
    /\ UNCHANGED <<module, launch, envKey, pc, cfgName, appKey, routes, initCount,
                   atexitHooks, wstate, postforkCalls, postforkFailed>>

\* One registered atexit function
AtexitHook(mod, client, fails) ==
    IF mod = "app_idiomatic" THEN _shutdown_ld_client(client, fails)
    ELSE _close_ld(client, fails)

\* The n registered atexit functions, run one after the other
RECURSIVE RunAtexit(_, _, _, _)
RunAtexit(n, mod, client, fails) ==
    IF n = 0 THEN [state |-> client, calls |-> 0, failed |-> FALSE, raised |-> FALSE]
    ELSE LET h == AtexitHook(mod, client, fails)
             r == RunAtexit(n - 1, mod, h.state, fails)
         IN [state |-> r.state, calls |-> h.calls + r.calls,
             failed |-> h.failed \/ r.failed, raised |-> h.raised \/ r.raised]

\* Process p exits (the master after its workers): the atexit functions run.
Exit(p, fails) ==
    /\ IF p = Master
       THEN /\ pc = "ready"
            /\ \A w \in Workers : wstate[w] \in {"none", "exited", "crashed"}
            /\ pc' = "exited"
            /\ UNCHANGED wstate
       ELSE /\ wstate[p] = "serving"
            /\ wstate' = [wstate EXCEPT ![p] = "exited"]
            /\ UNCHANGED pc
    /\ ld' = [ld EXCEPT ![p] = RunAtexit(atexitHooks, module, ld[p], fails).state]
    /\ closeCalls' = [closeCalls EXCEPT ![p] = @ + RunAtexit(atexitHooks, module, ld[p], fails).calls]
    /\ closeFailed' = RunAtexit(atexitHooks, module, ld[p], fails).failed
    /\ closeErr' = RunAtexit(atexitHooks, module, ld[p], fails).raised
    /\ UNCHANGED <<module, launch, envKey, cfgName, appKey, routes, initCount,
                   atexitHooks, postforkCalls, postforkFailed, served, last>>

Next ==
    \/ ImportApp
    \/ ImportAppIdiomatic
    \/ UseModuleApp
    \/ CallFactory
    \/ RunMain
    \/ \E p \in Procs : BecomeReady(p)
    \/ \E w \in Workers : Fork(w)
    \/ \E w \in Workers, fails \in BOOLEAN : PostFork(w, fails)
    \/ \E p \in Procs, route \in Routes, arg \in UserArgs, k \in FlagKeys,
          o \in EngineOutcomes, fails \in BOOLEAN : Request(p, route, arg, k, o, fails)
    \/ \E p \in Procs, fails \in BOOLEAN : Exit(p, fails)

Spec == Init /\ [][Next]_vars

\* create_app(name) applied to every configuration name under every value of
\* the environment key, by a process whose entry point is the factory.
InitCreateApp ==
    /\ module = "app_idiomatic"
    /\ launch = "gunicorn_factory"
    /\ pc = "call"
    /\ InitCommon

ApplyCreateApp(name) ==
    /\ pc = "call"
    /\ Startup(create_app(name, envKey), "ready")
    /\ cfgName' = name

NextCreateApp ==
    \/ \E name \in ConfigNames : ApplyCreateApp(name)
    \/ \E p \in Procs : BecomeReady(p)
    \/ \E w \in Workers : Fork(w)
    \/ \E w \in Workers, fails \in BOOLEAN : PostFork(w, fails)
    \/ \E p \in Procs, route \in Routes, arg \in UserArgs, k \in FlagKeys,
          o \in EngineOutcomes, fails \in BOOLEAN : Request(p, route, arg, k, o, fails)
    \/ \E p \in Procs, fails \in BOOLEAN : Exit(p, fails)

SpecCreateApp == InitCreateApp /\ [][NextCreateApp]_vars

-----------------------------------------------------------------------------
(* Properties *)

Exited(p) == IF p = Master THEN pc = "exited" ELSE wstate[p] = "exited"

\* C1: in the factory-pattern application the handle is closed exactly once
\* and only at process shutdown: no process has called close() while it is
\* still running, and a process that exited after initialization has called
\* it exactly once.
C1_ClosedOnceOnlyAtShutdown ==
    module = "app_idiomatic" =>
        \A p \in Procs :
            /\ closeCalls[p] > 0 => Exited(p)
            /\ (Exited(p) /\ initCount > 0) => closeCalls[p] = 1

\* C2: a request whose flag evaluation finds the handle CLOSED, not yet READY
\* or not registered gets exactly the caller-supplied default, whatever
\* requests and close calls came before.
C2_DefaultUnlessReady ==
    (last.evaluated /\ last.ldAt # "READY") => last.value = last.default

\* C2 witness: a request evaluated on a handle an earlier teardown closed,
\* with the flag on in the service, answered with the default.
C2_Witness ==
    /\ last.route = "/api/flag"
    /\ last.ldAt = "CLOSED"
    /\ last.outcome = "on"
    /\ served[last.proc] = 2
    /\ last.value = last.default

\* C3: every request to GET / or GET /api/flag/<flagKey> is answered 200 with
\* an evaluation, and when the engine fails internally or the context is
\* malformed the value is the caller-supplied default.
C3_EvaluationNeverBreaksServing ==
    last.route \in {"/", "/api/flag"} =>
        /\ last.status = 200
        /\ last.evaluated
        /\ (last.outcome = "fail" \/ last.ctxKey = "") => last.value = last.default

\* C3 witness: a READY engine failed internally on an API request of a
\* named user, and the request was answered 200 with the default.
C3_Witness ==
    /\ last.route = "/api/flag"
    /\ last.arg = "alice"
    /\ last.ldAt = "READY"
    /\ last.outcome = "fail"
    /\ last.status = 200
    /\ last.value = last.default

\* C4: every evaluated request has a context with a non-empty key; when the
\* user parameter is absent or empty the key is the default identity "anon".
C4_ContextKeyNeverEmpty ==
    last.evaluated =>
        /\ last.ctxKey # ""
        /\ (last.route = "/api/flag" /\ last.arg \in {NoUser, ""}) => last.ctxKey = "anon"

\* C5: the handle is initialized exactly once per process run, before any
\* worker is forked: never twice, and exactly once when the process is up.
C5_InitializedExactlyOnce ==
    /\ initCount <= 1
    /\ pc \in {"ready", "exited"} => initCount = 1
    /\ \A w \in Workers : wstate[w] # "none" => initCount = 1

\* C6: every forked worker runs post_fork exactly once, after the fork and
\* before its first request, and a failing postfork never ends the worker.
C6_PostforkOncePerWorker ==
    \A w \in Workers :
        /\ wstate[w] # "crashed"
        /\ wstate[w] \in {"none", "forked"} => (postforkCalls[w] = 0 /\ served[w] = 0)
        /\ wstate[w] \in {"serving", "exited"} => postforkCalls[w] = 1

\* C6 witness: a worker whose postfork raised has served a request.
C6_Witness ==
    \E w \in Workers : postforkFailed[w] /\ postforkCalls[w] = 1 /\ served[w] > 0

\* C7: no close path (teardown hook, atexit hook) raises to its caller, even
\* when the underlying close() fails, and a close path run on an already
\* closed handle leaves the handle and the registrations as they were.
C7_ShutdownIdempotent ==
    [][(\E p \in Procs : closeCalls'[p] > closeCalls[p]) =>
          /\ ~closeErr'
          /\ \A p \in Procs :
                (closeCalls'[p] > closeCalls[p] /\ ld[p] = "CLOSED") =>
                    /\ ld'[p] = "CLOSED"
                    /\ <<initCount, atexitHooks, routes, appKey>>' =
                       <<initCount, atexitHooks, routes, appKey>>]_vars

\* C7 witness: a process has run a close path at least twice, the latest with
\* a failing close(), and nothing was raised.
C7_Witness ==
    \E p \in Procs : closeCalls[p] >= 2 /\ closeFailed /\ ~closeErr /\ ld[p] = "CLOSED"

\* C8: with an empty or absent SDK key the process never creates a handle,
\* registers no route, forks no worker and serves no request.
C8_MissingKeyNeverServes ==
    envKey = "" =>
        /\ pc \in {"start", "failed"}
        /\ initCount = 0
        /\ ~routes
        /\ \A p \in Procs : ld[p] = NoClient /\ served[p] = 0
        /\ \A w \in Workers : wstate[w] = "none"
        /\ last = NoRequest

\* C8 witness: start-up has failed on the empty key.
C8_Witness == envKey = "" /\ pc = "failed" /\ initCount = 0

\* C9: the answer to GET /api/flag/<k> reports flag k and the key of the
\* context that was evaluated; without a user parameter both are "anon".
C9_ResponseReportsEvaluatedUser ==
    last.route = "/api/flag" =>
        /\ last.status = 200
        /\ last.flag = last.reqFlag
        /\ last.user = last.ctxKey
        /\ last.arg = NoUser => (last.user = "anon" /\ last.ctxKey = "anon")

\* C9 witness: app_idiomatic answered GET /api/flag/test-flag without a user
\* parameter, reporting "anon".
C9_Witness ==
    /\ module = "app_idiomatic"
    /\ last.route = "/api/flag"
    /\ last.reqFlag = "test-flag"
    /\ last.flag = "test-flag"
    /\ last.arg = NoUser
    /\ last.user = "anon"

\* C10: create_app(name) passes the start-up configuration check exactly when
\* the SDK key of the selected configuration class, the value loaded into
\* app.config, is non-empty.
C10_StartsIffSelectedKeySet ==
    pc # "call" => ((pc # "failed") <=> (appKey # ""))

====
